---- MODULE Spec2Model ----
(***************************************************************************)
(* formstruct: a parser built once from a JSON schema (createParser) that  *)
(* turns an ordered sequence of form entries (key, value) into a nested    *)
(* tree.  The model follows src/src/index.ts: reference resolution,        *)
(* schema enhancement, path resolution, default computation, value         *)
(* coercion and the tree builder.                                          *)
(*                                                                         *)
(* JavaScript objects are modelled as follows.                             *)
(*  - A schema document is an arena of schema nodes addressed by node id;  *)
(*    a node holds its OWN fields and a prototype link (proto), set by     *)
(*    Object.setPrototypeOf in resolveRef.  A field read goes through the  *)
(*    prototype chain, an object spread copies own fields only.            *)
(*  - A JSON value is a record [k, l, m, p, s]: k is its kind, s the text  *)
(*    of a scalar, l the length of a list, m the members of a mapping or   *)
(*    list (a function from segment to value; a list may have holes).      *)
(*  - Objects that several trees can reach at once (the copies of explicit *)
(*    defaults kept in a defaults template, and the default values stored  *)
(*    in the schema) live in the heap under a base id and are referred to  *)
(*    by a value of kind "ref".  The output tree of the running invocation *)
(*    is heap[RootBase].                                                   *)
(*  - The module is an ES module, hence strict mode: creating a property   *)
(*    on a primitive, or assigning a property that has only a getter,      *)
(*    throws TypeError.                                                    *)
(***************************************************************************)
EXTENDS Integers, Sequences, FiniteSets, TLC

\* ------------------------------------------------------------------------
\* Bounds of the model
\* ------------------------------------------------------------------------
MaxEntries == 3

MaxInvocations == 2

\* deepest nesting an entry drives through a self-referential property
MaxDepth == 4

\* ------------------------------------------------------------------------
\* JSON values
\* ------------------------------------------------------------------------
EmptyM == [x \in {} |-> ""]

Value(k, s, l, m) == [k |-> k, l |-> l, m |-> m, p |-> "", s |-> s]

Undef == Value("undef", "", 0, EmptyM)

Null == Value("null", "", 0, EmptyM)

Str(s) == Value("str", s, 0, EmptyM)

Num(s) == Value("num", s, 0, EmptyM)

Bool(b) == Value("bool", IF b THEN "true" ELSE "false", 0, EmptyM)

Map(m) == Value("map", "", 0, m)

List(l, m) == Value("list", "", l, m)

EmptyMap == Map(EmptyM)

EmptyList == List(0, EmptyM)

\* the accessor property defineProperty installs for an array-typed property
Getter == Value("getter", "", 0, EmptyM)

\* a reference to the shared object heap[Base(node, key)]
Ref(node, key) == [k |-> "ref", l |-> 0, m |-> EmptyM, p |-> key, s |-> node]

\* Base ids of the heap: the output tree of the running invocation, the copy
\* of the explicit default of property key kept in the template of node
\* (key # ""), and the default value stored in schema node (key = "").
Base(node, key) == [n |-> node, p |-> key]

RootBase == Base("", "")

IsContainer(v) == v.k \in {"map", "list"}

\* JavaScript truthiness of a value read from a slot
Truthy(v) ==
  CASE v.k \in {"undef", "null"} -> FALSE
    [] v.k = "bool" -> v.s = "true"
    [] v.k = "num" -> v.s \notin {"0", "NaN"}
    [] v.k = "str" -> v.s # ""
    [] OTHER -> TRUE

\* ------------------------------------------------------------------------
\* Schema nodes (JSONSchema7 objects)
\* ------------------------------------------------------------------------
NoNode ==
  [type |-> "", hasProps |-> FALSE, props |-> EmptyM,
   itemsKind |-> "none", items |-> <<>>,
   unionKind |-> "", alts |-> <<>>,
   refForm |-> "none", refPath |-> <<>>,
   hasDefault |-> FALSE, default |-> Undef,
   nullable |-> FALSE,
   hasDefs |-> FALSE, defs |-> EmptyM,
   proto |-> "", defOwner |-> "",
   hasPrefilled |-> FALSE, prefilled |-> Undef]

Typed(t) == [NoNode EXCEPT !.type = t]

Obj(props) == [NoNode EXCEPT !.type = "object", !.hasProps = TRUE, !.props = props]

Arr(item) == [NoNode EXCEPT !.type = "array", !.itemsKind = "single", !.items = <<item>>]

OneOf(kind, alts) == [NoNode EXCEPT !.unionKind = kind, !.alts = alts]

RefTo(path) == [NoNode EXCEPT !.refForm = "rel", !.refPath = path]

\* { $ref: "#" }
RefRoot == [NoNode EXCEPT !.refForm = "root"]

\* { $ref: "other.json" }: a reference string that does not start with "#"
RefOther == [NoNode EXCEPT !.refForm = "other"]

WithDefault(n, d) == [n EXCEPT !.hasDefault = TRUE, !.default = d]

WithDefs(n, defs) == [n EXCEPT !.hasDefs = TRUE, !.defs = defs]

\* The fields of a schema object in groups: a keyword and its presence flag.
\* A group is the node's own when the node carries the keyword itself.
OwnField(n, f) ==
  CASE f = "type" -> n.type # ""
    [] f \in {"hasProps", "props"} -> n.hasProps
    [] f \in {"itemsKind", "items"} -> n.itemsKind # "none"
    [] f \in {"unionKind", "alts"} -> n.unionKind # ""
    [] f \in {"refForm", "refPath"} -> n.refForm # "none"
    [] f \in {"hasDefault", "default", "defOwner"} -> n.hasDefault
    [] f \in {"hasDefs", "defs"} -> n.hasDefs
    [] f \in {"hasPrefilled", "prefilled"} -> n.hasPrefilled
    [] f = "nullable" -> n.nullable
    [] OTHER -> TRUE

\* the fields of node n itself; defOwner names the node whose own "default"
\* a read of schema.default returns
OwnView(n, id) ==
  [n EXCEPT !.defOwner = IF n.hasDefault THEN id ELSE "", !.proto = ""]

\* What a read of the fields of schema object id gives: own fields first,
\* then those of the prototype chain.
Inherit(own, q) ==
  [f \in DOMAIN own |-> IF OwnField(own, f) THEN own[f] ELSE q[f]]

RECURSIVE View(_, _)
View(nodes, id) ==
  IF nodes[id].proto = "" THEN OwnView(nodes[id], id)
  ELSE Inherit(OwnView(nodes[id], id), View(nodes, nodes[id].proto))

\* { ...node, nullable }: the own fields of the node only
Spread(nodes, id, nullable) ==
  [nodes[id] EXCEPT !.proto = "", !.nullable = nullable,
                    !.defOwner = IF nodes[id].hasDefault THEN id ELSE ""]

\* the lookahead argument of getByNext / getCurrentSchema
NoNext == [has |-> FALSE, num |-> FALSE, key |-> ""]

NextKey(key) == [has |-> TRUE, num |-> FALSE, key |-> key]

NextIndex(key) == [has |-> TRUE, num |-> TRUE, key |-> key]

\* the first element of seq that satisfies Test, 0 if none (Array.find)
FindFirst(seq, Test(_)) ==
  IF \E i \in 1..Len(seq) : Test(seq[i])
  THEN CHOOSE i \in 1..Len(seq) : Test(seq[i]) /\ \A j \in 1..(i - 1) : ~Test(seq[j])
  ELSE 0

\* a getByNext that ignores the lookahead and takes the first alternative
GetByNext_FirstAlternative(nodes, kind, ids, next) ==
  CASE kind = "none" -> [k |-> "undef", id |-> ""]
    [] kind = "single" -> [k |-> "node", id |-> ids[1]]
    [] Len(ids) > 0 -> [k |-> "node", id |-> ids[1]]
    [] OTHER -> [k |-> "empty", id |-> ""]

\* !!s.properties?.[next]
HasProperty(v, key) == v.hasProps /\ key \in DOMAIN v.props

\* getByNext on a list of alternatives (kind "tuple"), a single schema (kind
\* "single") or a missing one (kind "none").  The result names a node
\* ("node"), the empty schema {} ("empty") or undefined ("undef").
GetByNext(nodes, kind, ids, next) ==
  LET HasItems(a) == View(nodes, a).itemsKind # "none"
      HasProp(a) == HasProperty(View(nodes, a), next.key)
      Pick(i) == IF i = 0 THEN [k |-> "empty", id |-> ""] ELSE [k |-> "node", id |-> ids[i]]
  IN CASE kind = "none" -> [k |-> "undef", id |-> ""]
       [] kind = "single" -> [k |-> "node", id |-> ids[1]]
       [] ~next.has -> Pick(IF Len(ids) > 0 THEN 1 ELSE 0)
       [] next.num -> Pick(FindFirst(ids, HasItems))
       [] OTHER -> Pick(FindFirst(ids, HasProp))

\* { ...getByNext(fromMultiple, nextKey), nullable }
SpreadSelected(nodes, alt, nullable) ==
  IF alt.k = "node" THEN Spread(nodes, alt.id, nullable)
  ELSE [NoNode EXCEPT !.nullable = nullable]

\* the schema of a property: a union gives way to the alternative the
\* lookahead selects
PropertySchema(nodes, prop, next) ==
  IF prop.unionKind # ""
  THEN SpreadSelected(nodes, GetByNext(nodes, "tuple", prop.alts, next), prop.nullable)
  ELSE prop

\* the schema object getByNext returned, read through its prototype chain
SelectedSchema(nodes, it) ==
  IF it.k = "node" THEN View(nodes, it.id) ELSE NoNode

GetCurrentSchema(nodes, schema, key, next) ==
  IF schema.type = "object" /\ schema.hasProps /\ key \in DOMAIN schema.props
  THEN PropertySchema(nodes, View(nodes, schema.props[key]), next)
  ELSE IF schema.type = "array" /\ schema.itemsKind # "none"
  THEN SelectedSchema(nodes, GetByNext(nodes, schema.itemsKind, schema.items, next))
  ELSE NoNode

\* some alternative of the union is null-typed
HasNullAlt(nodes, v) ==
  \E i \in 1..Len(v.alts) : View(nodes, v.alts[i]).type = "null"

\* schema.default as a slot value: a container default is the schema's own
\* object, not a copy
DefaultOf(v) ==
  IF IsContainer(v.default) THEN Ref(v.defOwner, "") ELSE v.default

\* defaults[key] for one property of an object without a template; Undef
\* when the loop leaves the key out
DefaultEntry(nodes, element) ==
  IF element.hasDefault THEN DefaultOf(element)
  ELSE IF element.type = "boolean" THEN Bool(FALSE)
  ELSE IF element.unionKind # "" /\ HasNullAlt(nodes, element) THEN Null
  ELSE Undef

\* { ...schema.prefilled }: a shallow copy, the getter of an array-typed
\* property read once
SpreadPrefilled(prefilled) ==
  Map([key \in DOMAIN prefilled.m |->
         IF prefilled.m[key] = Getter THEN EmptyList ELSE prefilled.m[key]])

GetDefault(nodes, schema) ==
  IF schema.hasPrefilled THEN SpreadPrefilled(schema.prefilled)
  ELSE IF schema.hasDefault THEN DefaultOf(schema)
  ELSE IF schema.type = "object"
  THEN LET El(key) == DefaultEntry(nodes, View(nodes, schema.props[key]))
       IN Map([key \in {x \in DOMAIN schema.props : El(x) # Undef} |-> El(key)])
  ELSE IF schema.type = "array" THEN EmptyList
  ELSE Undef

\* Number(value) on the raw strings of the model
NumberOf(raw) ==
  CASE raw \in {"0", "1", "2", "3", "4", "5", "6", "7", "8", "9", "10", "11", "12",
                 "13", "14", "15", "-1"} -> raw
    [] raw = "" -> "0"
    [] raw = "05" -> "5"
    [] raw = "1.5" -> "1.5"
    [] OTHER -> "NaN"

\* Number.isInteger(Number(segment))
IsIntegerSeg(seg) == NumberOf(seg) \notin {"NaN", "1.5"}

Thrown == Value("throw", "TypeError", 0, EmptyM)

RECURSIVE ParseValue(_, _, _)
\* parseValue(getByNext(schema.items), value): a missing items schema is
\* read as undefined.nullable
ParseItem(nodes, it, raw) ==
  CASE it.k = "undef" -> Thrown
    [] it.k = "empty" -> Str(raw)
    [] OTHER -> ParseValue(nodes, View(nodes, it.id), raw)

\* a coercer that applies the nullable rule only to untyped leaves
ParseValue_TypeBeforeNullable(nodes, schema, raw) ==
  CASE schema.type = "boolean" -> Bool(raw = "on" \/ raw = "true")
    [] schema.type \in {"integer", "number"} -> Num(NumberOf(raw))
    [] schema.type = "string" -> Str(raw)
    [] schema.type = "array" ->
         ParseItem(nodes, GetByNext(nodes, schema.itemsKind, schema.items, NoNext), raw)
    [] OTHER -> IF schema.nullable /\ raw = "" THEN Null ELSE Str(raw)

\* a coercer that reads the value of an untyped leaf as a number
ParseValue_UntypedAsNumber(nodes, schema, raw) ==
  IF schema.nullable /\ raw = "" THEN Null
  ELSE CASE schema.type = "boolean" -> Bool(raw = "on" \/ raw = "true")
         [] schema.type \in {"integer", "number"} -> Num(NumberOf(raw))
         [] schema.type = "string" -> Str(raw)
         [] schema.type = "array" ->
              ParseItem(nodes, GetByNext(nodes, schema.itemsKind, schema.items, NoNext), raw)
         [] OTHER -> Num(NumberOf(raw))

\* a coercer whose boolean rule accepts every non-empty raw value but "false"
ParseValue_TruthyBoolean(nodes, schema, raw) ==
  IF schema.nullable /\ raw = "" THEN Null
  ELSE CASE schema.type = "boolean" -> Bool(raw # "" /\ raw # "false")
         [] schema.type \in {"integer", "number"} -> Num(NumberOf(raw))
         [] schema.type = "string" -> Str(raw)
         [] schema.type = "array" ->
              ParseItem(nodes, GetByNext(nodes, schema.itemsKind, schema.items, NoNext), raw)
         [] OTHER -> Str(raw)

ParseValue(nodes, schema, raw) ==
  IF schema.nullable /\ raw = "" THEN Null
  ELSE CASE schema.type = "boolean" -> Bool(raw = "on" \/ raw = "true")
         [] schema.type \in {"integer", "number"} -> Num(NumberOf(raw))
         [] schema.type = "string" -> Str(raw)
         [] schema.type = "array" ->
              ParseItem(nodes, GetByNext(nodes, schema.itemsKind, schema.items, NoNext), raw)
         [] OTHER -> Str(raw)

\* ------------------------------------------------------------------------
\* Construction: resolveRef and enhanceSchema
\* ------------------------------------------------------------------------
\* canonical array index segments, in order
Indices == <<"0", "1", "2", "3", "4", "5", "6", "7", "8", "9", "10", "11", "12", "13", "14", "15">>

IsIndex(seg) == \E i \in 1..Len(Indices) : Indices[i] = seg

IdxOf(seg) == (CHOOSE i \in 1..Len(Indices) : Indices[i] = seg) - 1

RECURSIVE SetToSeq(_)
SetToSeq(S) ==
  IF S = {} THEN <<>>
  ELSE LET x == CHOOSE y \in S : TRUE IN <<x>> \o SetToSeq(S \ {x})

Range(f) == {f[x] : x \in DOMAIN f}

\* the schema objects the keywords of a schema object hold
ChildrenOf(v) ==
  SetToSeq(Range(v.props)) \o v.items \o v.alts \o SetToSeq(Range(v.defs))

\* the schema objects the for-in loop of resolveRef reaches from a node:
\* its properties, item schemas, alternatives and definitions, own or
\* inherited
Children(nodes, id) == ChildrenOf(View(nodes, id))

\* names every object inherits from Object.prototype: a property read of
\* one of them gives a function or an object, never undefined
ObjectPrototypeMembers == {"constructor", "toString", "valueOf", "hasOwnProperty"}

\* resolved[segment], the cursor being schema object v (c = "node"), one
\* of its keyword containers, or a built-in object (c = "builtin")
SegmentOf(v, cur, seg) ==
  CASE cur.c = "node" /\ seg = "properties" /\ v.hasProps -> [c |-> "props", id |-> cur.id]
    [] cur.c = "node" /\ seg \in {"definitions", "$defs"} /\ v.hasDefs -> [c |-> "defs", id |-> cur.id]
    [] cur.c = "node" /\ seg = "items" /\ v.itemsKind = "single" -> [c |-> "node", id |-> v.items[1]]
    [] cur.c = "node" /\ seg = "items" /\ v.itemsKind = "tuple" -> [c |-> "items", id |-> cur.id]
    [] cur.c = "node" /\ seg # "" /\ seg = v.unionKind -> [c |-> "alts", id |-> cur.id]
    [] cur.c = "props" /\ seg \in DOMAIN v.props -> [c |-> "node", id |-> v.props[seg]]
    [] cur.c = "defs" /\ seg \in DOMAIN v.defs -> [c |-> "node", id |-> v.defs[seg]]
    [] cur.c = "items" /\ IsIndex(seg) /\ IdxOf(seg) < Len(v.items) -> [c |-> "node", id |-> v.items[IdxOf(seg) + 1]]
    [] cur.c = "alts" /\ IsIndex(seg) /\ IdxOf(seg) < Len(v.alts) -> [c |-> "node", id |-> v.alts[IdxOf(seg) + 1]]
    [] seg \in ObjectPrototypeMembers -> [c |-> "builtin", id |-> ""]
    [] OTHER -> [c |-> "none", id |-> ""]

\* resolved = resolved[segment] along a root-relative pointer
PointerStep(nodes, cur, seg) ==
  SegmentOf(IF cur.c = "builtin" THEN NoNode ELSE View(nodes, cur.id), cur, seg)

RECURSIVE PointerWalk(_, _, _)
PointerWalk(nodes, cur, path) ==
  IF path = <<>> \/ cur.c = "none" THEN cur
  ELSE PointerWalk(nodes, PointerStep(nodes, cur, Head(path)), Tail(path))

\* the prototype chain of node id, id included
RECURSIVE ProtoChain(_, _)
ProtoChain(nodes, id) ==
  IF id = "" THEN {} ELSE {id} \cup ProtoChain(nodes, nodes[id].proto)

\* a resolveRef that leaves the referring schema object unlinked
SetProto_NoLink(st, id, target) == st

\* Object.setPrototypeOf(schema, target); a cyclic chain is a TypeError
SetProto(st, id, target) ==
  IF id \in ProtoChain(st.nodes, target)
  THEN [st EXCEPT !.err = "TypeError"]
  ELSE [st EXCEPT !.nodes[id].proto = target]

RECURSIVE ResolveRef(_, _, _)
RECURSIVE ResolveEach(_, _, _)
\* the for-in loop at the end of resolveRef
ResolveChildren(st, root, id) ==
  ResolveEach(st, root, Children(st.nodes, id))

\* delete schema.$ref, then the for-in loop
DeleteRef(linked, root, id) ==
  IF linked.err # "" THEN linked
  ELSE ResolveChildren([linked EXCEPT !.nodes[id].refForm = "none",
                                      !.nodes[id].refPath = <<>>], root, id)

\* the branch of resolveRef for a root-relative reference whose pointer
\* walk ended at target
LinkTo(st, root, id, target) ==
  IF target.c = "none"
  THEN [st EXCEPT !.err = "Error", !.msg = <<"Unable to resolve reference">> \o st.nodes[id].refPath]
  ELSE DeleteRef(IF target.c = "node" THEN SetProto(st, id, target.id) ELSE st, root, id)

\* resolveRef on a schema object that was not visited before
ResolveNew(st, root, id) ==
  CASE st.nodes[id].refForm = "root" -> SetProto(st, id, root)
    [] st.nodes[id].refForm = "rel" ->
         LinkTo(st, root, id,
                PointerWalk(st.nodes, [c |-> "node", id |-> root], st.nodes[id].refPath))
    [] OTHER -> ResolveChildren(st, root, id)

\* a resolveRef that remembers only the schema objects that carry a
\* reference
Visit_OnlyReferences(st, id) ==
  [st EXCEPT !.visited = IF st.nodes[id].refForm # "none" THEN @ \cup {id} ELSE @,
             !.trail = Append(@, id)]

\* visited.add(schema); trail lists the schema objects in the order
\* resolveRef went on to process them
Visit(st, id) ==
  [st EXCEPT !.visited = @ \cup {id}, !.trail = Append(@, id)]

ResolveRef(st, root, id) ==
  IF st.err # "" \/ id \in st.visited THEN st
  ELSE ResolveNew(Visit(st, id), root, id)

ResolveEach(st, root, ids) ==
  IF ids = <<>> THEN st
  ELSE ResolveEach(ResolveRef(st, root, Head(ids)), root, Tail(ids))

\* a template rule that forgets boolean-typed properties
TypeEntry_NoBoolean(nodes, sub) ==
  CASE sub.unionKind # "" -> IF HasNullAlt(nodes, sub) THEN Null ELSE Undef
    [] sub.type = "null" -> Null
    [] sub.type = "array" -> Getter
    [] OTHER -> Undef

\* the template entry of one property, before its explicit default
TypeEntry(nodes, sub) ==
  CASE sub.unionKind # "" -> IF HasNullAlt(nodes, sub) THEN Null ELSE Undef
    [] sub.type = "null" -> Null
    [] sub.type = "boolean" -> Bool(FALSE)
    [] sub.type = "array" -> Getter
    [] OTHER -> Undef

\* prefilled[key] for property key of node id, whose schema object is sub;
\* a container default is deep-copied into an object of its own,
\* heap[Base(id, key)]
PrefilledEntry(nodes, id, key, sub) ==
  IF sub.hasDefault
  THEN IF IsContainer(sub.default) THEN Ref(id, key) ELSE sub.default
  ELSE TypeEntry(nodes, sub)

\* the property is a union with a null-typed alternative
IsNullable(nodes, sub) == sub.unionKind # "" /\ HasNullAlt(nodes, sub)

\* the explicit default of the property is an object or an array
HasContainerDefault(sub) == sub.hasDefault /\ IsContainer(sub.default)

\* prefilled[key] = ... on a property that has only a getter
AssignsGetter(nodes, sub) == sub.hasDefault /\ TypeEntry(nodes, sub) = Getter

\* schema.prefilled = prefilled and the nullable flags, once the loop over
\* the properties props of node id is through
StorePrefilled(st, id, prefilled, nullables, copies) ==
  [st EXCEPT
     !.templates = Append(@, id),
     !.nodes = [x \in DOMAIN st.nodes |->
                  IF x = id
                  THEN [st.nodes[x] EXCEPT !.hasPrefilled = TRUE,
                                           !.prefilled = prefilled,
                                           !.nullable = @ \/ x \in nullables]
                  ELSE IF x \in nullables THEN [st.nodes[x] EXCEPT !.nullable = TRUE]
                  ELSE st.nodes[x]],
     !.heap = copies @@ @]

\* the loop of enhanceSchema over the properties props of node id
Prefill(st, id, props) ==
  LET Sub(key) == View(st.nodes, props[key])
      Filled(key) == PrefilledEntry(st.nodes, id, key, Sub(key))
  IN IF \E key \in DOMAIN props : AssignsGetter(st.nodes, Sub(key))
     THEN [st EXCEPT !.err = "TypeError"]
     ELSE StorePrefilled(
            st, id,
            Map([key \in {x \in DOMAIN props : Filled(x) # Undef} |-> Filled(key)]),
            {props[key] : key \in {x \in DOMAIN props : IsNullable(st.nodes, Sub(x))}},
            [b \in {Base(id, key) : key \in {x \in DOMAIN props : HasContainerDefault(Sub(x))}}
               |-> Sub(b.p).default])

\* the body of enhanceSchema for an object node with properties
BuildPrefilled(st, id) == Prefill(st, id, View(st.nodes, id).props)

RECURSIVE EnhanceSchema(_, _, _)
RECURSIVE EnhanceEach(_, _, _)
\* enhanceSchema on schema object id, read as v
EnhanceNode(st, id, stack, v) ==
  EnhanceEach(IF v.type = "object" /\ v.hasProps THEN BuildPrefilled(st, id)
              ELSE IF v.type = "array" /\ v.itemsKind # "none"
              THEN EnhanceEach(st, v.items, stack \cup {id})
              ELSE st,
              SetToSeq(Range(v.defs)), stack \cup {id})

EnhanceSchema(st, id, stack) ==
  IF st.err # "" THEN st
  ELSE IF id \in stack THEN [st EXCEPT !.err = "RangeError"]
  ELSE EnhanceNode(st, id, stack, View(st.nodes, id))

EnhanceEach(st, ids, stack) ==
  IF ids = <<>> THEN st
  ELSE EnhanceEach(EnhanceSchema(st, Head(ids), stack), Tail(ids), stack)

\* the default values stored in the schema that are objects
SchemaDefaults(nodes) ==
  LET owners == {id \in DOMAIN nodes : nodes[id].hasDefault /\ IsContainer(nodes[id].default)}
  IN [b \in {Base(id, "") : id \in owners} |-> nodes[b.n].default]

\* enhanceSchema(schema), after resolveRef(schema, schema) gave resolved
Enhance(nodes, root, resolved) ==
  EnhanceSchema([nodes |-> resolved.nodes, heap |-> SchemaDefaults(nodes),
                 err |-> resolved.err, msg |-> resolved.msg,
                 trail |-> resolved.trail, templates |-> <<>>], root, {})

\* createParser up to the return of the parser function
CreateParser(nodes, root) ==
  Enhance(nodes, root,
          ResolveRef([nodes |-> nodes, visited |-> {}, err |-> "", msg |-> <<>>,
                      trail |-> <<>>], root, root))

\* ------------------------------------------------------------------------
\* Output trees
\* ------------------------------------------------------------------------
RECURSIVE GetAt(_, _)
GetAt(v, path) ==
  IF path = <<>> THEN v ELSE GetAt(v.m[Head(path)], Tail(path))

RECURSIVE SetAt(_, _, _)
SetAt(v, path, nv) ==
  IF path = <<>> THEN nv
  ELSE [v EXCEPT !.m = [@ EXCEPT ![Head(path)] = SetAt(@, Tail(path), nv)]]

\* container[seg]
Slot(c, seg) == IF seg \in DOMAIN c.m THEN c.m[seg] ELSE Undef

\* container[seg] = val; an index beyond the end of a list extends it
PutSlot(c, seg, val) ==
  [c EXCEPT !.m = (seg :> val) @@ c.m,
            !.l = IF c.k = "list" /\ IsIndex(seg) /\ IdxOf(seg) + 1 > c.l
                  THEN IdxOf(seg) + 1 ELSE c.l]

\* list.push(val)
Push(c, val) == PutSlot(c, Indices[c.l + 1], val)

\* the tree below v with every shared object written out in place
RECURSIVE Deref(_, _)
Deref(heap, v) ==
  IF v.k = "ref" THEN Deref(heap, heap[Base(v.s, v.p)])
  ELSE IF IsContainer(v) THEN [v EXCEPT !.m = [seg \in DOMAIN v.m |-> Deref(heap, v.m[seg])]]
  ELSE v

\* the object a slot value denotes is a list (Array.isArray)
IsArray(heap, v) ==
  \/ v.k = "list"
  \/ v.k = "ref" /\ heap[Base(v.s, v.p)].k = "list"

\* where "current" points after current = current[seg]
Descend(st, seg, slot) ==
  IF slot.k = "ref"
  THEN [st EXCEPT !.base = Base(slot.s, slot.p), !.path = <<>>]
  ELSE [st EXCEPT !.path = Append(st.path, seg)]

\* a tree builder that materializes every intermediate container empty
FreshValue_NoDefault(defaultValue, nextKey) ==
  IF IsIntegerSeg(nextKey) THEN EmptyList ELSE EmptyMap

\* defaultValue, or [] / {} by Number.isInteger(Number(nextKey))
FreshValue(defaultValue, nextKey) ==
  IF Truthy(defaultValue) THEN defaultValue
  ELSE IF IsIntegerSeg(nextKey) THEN EmptyList ELSE EmptyMap

\* current[key] = fresh; current = current[key]
CreateAndDescend(st, cur, key, fresh) ==
  Descend([st EXCEPT !.heap = [@ EXCEPT ![st.base] =
                                 SetAt(@, st.path, PutSlot(cur, key, fresh))]],
          key, fresh)

\* a tree builder that makes a new container for every intermediate
\* segment, whatever the slot holds
StepInto_AlwaysFresh(nodes, st, cur, childSchema, key, nextKey) ==
  IF ~IsContainer(cur) THEN [st EXCEPT !.err = "TypeError"]
  ELSE CreateAndDescend([st EXCEPT !.schema = childSchema], cur, key,
                        FreshValue(GetDefault(nodes, childSchema), nextKey))

\* a tree builder that adds to a mapping it finds the defaults of the
\* child schema resolved for the entry at hand
StepInto_AddsDefaults(nodes, st, cur, childSchema, key, nextKey) ==
  IF ~IsContainer(cur) THEN [st EXCEPT !.err = "TypeError"]
  ELSE IF Slot(cur, key).k = "map" /\ GetDefault(nodes, childSchema).k = "map"
  THEN CreateAndDescend([st EXCEPT !.schema = childSchema], cur, key,
                        Map(Slot(cur, key).m @@ GetDefault(nodes, childSchema).m))
  ELSE IF Truthy(Slot(cur, key))
  THEN Descend([st EXCEPT !.schema = childSchema], key, Slot(cur, key))
  ELSE CreateAndDescend([st EXCEPT !.schema = childSchema], cur, key,
                        FreshValue(GetDefault(nodes, childSchema), nextKey))

\* the body of the loop, "current" being cur and currentSchema already
\* advanced to childSchema
StepInto(nodes, st, cur, childSchema, key, nextKey) ==
  IF ~IsContainer(cur) THEN [st EXCEPT !.err = "TypeError"]
  ELSE IF Truthy(Slot(cur, key))
  THEN Descend([st EXCEPT !.schema = childSchema], key, Slot(cur, key))
  ELSE CreateAndDescend([st EXCEPT !.schema = childSchema], cur, key,
                        FreshValue(GetDefault(nodes, childSchema), nextKey))

\* one round of the loop of setNestedValue over an intermediate segment
WalkStep(nodes, st, key, nextKey) ==
  StepInto(nodes, st, GetAt(st.heap[st.base], st.path),
           GetCurrentSchema(nodes, st.schema, key, NextKey(nextKey)), key, nextKey)

RECURSIVE Walk(_, _, _, _)
Walk(nodes, st, keys, i) ==
  IF i >= Len(keys) \/ st.err # "" THEN st
  ELSE Walk(nodes, WalkStep(nodes, st, keys[i], keys[i + 1]), keys, i + 1)

\* current[key].push(parsedValue)
AppendLeaf(st, heap1, cur1, key, parsedValue) ==
  LET slot == Slot(cur1, key) IN
  IF slot.k = "ref"
  THEN [st EXCEPT !.heap = [heap1 EXCEPT ![Base(slot.s, slot.p)] = Push(@, parsedValue)]]
  ELSE [st EXCEPT !.heap = [st.heap EXCEPT ![st.base] =
                    SetAt(@, st.path, PutSlot(cur1, key, Push(slot, parsedValue)))]]

\* current[key] = parsedValue
AssignLeaf(st, cur1, key, parsedValue) ==
  [st EXCEPT !.heap = [st.heap EXCEPT ![st.base] =
                         SetAt(@, st.path, PutSlot(cur1, key, parsedValue))]]

\* a leaf store that overwrites a list instead of appending to it
StoreLeaf_NoAppend(st, heap1, cur1, key, parsedValue) ==
  AssignLeaf(st, cur1, key, parsedValue)

\* a leaf store that appends whenever the container is a list, so that an
\* index key name[i] accumulates in input order
StoreLeaf_IndexAppends(st, heap1, cur1, key, parsedValue) ==
  IF cur1.k = "list" /\ IsIndex(key)
  THEN [st EXCEPT !.heap = [st.heap EXCEPT ![st.base] = SetAt(@, st.path, Push(cur1, parsedValue))]]
  ELSE IF IsArray(heap1, Slot(cur1, key))
  THEN AppendLeaf(st, heap1, cur1, key, parsedValue)
  ELSE AssignLeaf(st, cur1, key, parsedValue)

\* a leaf store that keeps the value a slot already holds
StoreLeaf_FirstWins(st, heap1, cur1, key, parsedValue) ==
  IF IsArray(heap1, Slot(cur1, key))
  THEN AppendLeaf(st, heap1, cur1, key, parsedValue)
  ELSE IF Slot(cur1, key) # Undef THEN [st EXCEPT !.heap = heap1]
  ELSE AssignLeaf(st, cur1, key, parsedValue)

\* the last statement of setNestedValue: append to a list, else assign
StoreLeaf(st, heap1, cur1, key, parsedValue) ==
  IF IsArray(heap1, Slot(cur1, key))
  THEN AppendLeaf(st, heap1, cur1, key, parsedValue)
  ELSE AssignLeaf(st, cur1, key, parsedValue)

\* current[key] = getDefault(finalSchema) for an empty slot of array or
\* object type: "current" after the statement
SeedLeaf(nodes, cur, finalSchema, key) ==
  IF finalSchema.type \in {"array", "object"} /\ ~Truthy(Slot(cur, key))
  THEN PutSlot(cur, key, GetDefault(nodes, finalSchema))
  ELSE cur

\* parseValue, then the store; heap1 is the heap after the seeding
CoerceAndStore(st, heap1, cur1, key, parsedValue) ==
  IF parsedValue = Thrown THEN [st EXCEPT !.heap = heap1, !.err = "TypeError"]
  ELSE StoreLeaf(st, heap1, cur1, key, parsedValue)

\* the statements after the loop, "current" being cur1 once seeded
Seeded(st, cur1, key, parsedValue) ==
  CoerceAndStore(st, [st.heap EXCEPT ![st.base] = SetAt(@, st.path, cur1)],
                 cur1, key, parsedValue)

\* the statements after the loop, "current" being cur
LeafIn(nodes, st, cur, finalSchema, key, raw) ==
  IF ~IsContainer(cur) THEN [st EXCEPT !.err = "TypeError"]
  ELSE Seeded(st, SeedLeaf(nodes, cur, finalSchema, key), key,
              ParseValue(nodes, finalSchema, raw))

\* the part of setNestedValue after the loop: seed, coerce, store
WriteLeaf(nodes, st, key, raw) ==
  IF st.err # "" THEN st
  ELSE LeafIn(nodes, st, GetAt(st.heap[st.base], st.path),
              GetCurrentSchema(nodes, st.schema, key, NoNext), key, raw)

\* "current" at the start of setNestedValue: the root object
AtRoot(heap, schema) ==
  LET root == heap[RootBase] IN
  [heap |-> heap, schema |-> schema, err |-> "",
   base |-> IF root.k = "ref" THEN Base(root.s, root.p) ELSE RootBase,
   path |-> <<>>]

SetNestedValue(nodes, heap, schema, keys, raw) ==
  WriteLeaf(nodes, Walk(nodes, AtRoot(heap, schema), keys, 1), keys[Len(keys)], raw)

\* key.replace(/\[(\d+)]/g, ".$1").split("."): a raw key is a sequence of
\* dot-separated parts, each a name followed by bracketed indices
RECURSIVE SplitKey(_)
SplitKey(parts) ==
  IF parts = <<>> THEN <<>>
  ELSE <<Head(parts).name>> \o Head(parts).ix \o SplitKey(Tail(parts))

\* formData.forEach on a whole entry sequence, from entry i on
RECURSIVE FeedEntries(_, _, _, _, _)
FeedEntries(nodes, heap, schema, es, i) ==
  IF i > Len(es) THEN [heap |-> heap, err |-> ""]
  ELSE LET done == SetNestedValue(nodes, heap, schema, SplitKey(es[i].key), es[i].value) IN
       IF done.err # "" THEN [heap |-> done.heap, err |-> done.err]
       ELSE FeedEntries(nodes, done.heap, schema, es, i + 1)

\* createParser(schema)(es) as one computation: the tree a freshly built
\* parser returns for the entry sequence es (Thrown if it raises)
FreshParse(nodes, root, es) ==
  LET built == CreateParser(nodes, root)
      schema == View(built.nodes, root)
      heap0 == built.heap @@ [b \in {RootBase} |-> GetDefault(built.nodes, schema)]
      done == FeedEntries(built.nodes, heap0, schema, es, 1)
  IN IF built.err # "" \/ done.err # "" THEN Thrown
     ELSE Deref(done.heap, done.heap[RootBase])

\* ------------------------------------------------------------------------
\* Schema documents and the entries submitted against them
\* ------------------------------------------------------------------------
\* scalar properties, a nullable union, explicit defaults (a scalar and an
\* object), an array and a null-typed property at the root
DocBasic ==
  [b |-> Obj([name |-> "b_name", age |-> "b_age", active |-> "b_active",
              nick |-> "b_nick", role |-> "b_role", prefs |-> "b_prefs",
              tags |-> "b_tags", void |-> "b_void"]),
   b_name |-> Typed("string"),
   b_age |-> Typed("integer"),
   b_active |-> Typed("boolean"),
   b_nick |-> OneOf("anyOf", <<"b_nick_0", "b_nick_1">>),
   b_nick_0 |-> Typed("string"),
   b_nick_1 |-> Typed("null"),
   b_role |-> WithDefault(Typed("string"), Str("guest")),
   b_prefs |-> WithDefault(Typed("object"), Map([theme |-> Str("light")])),
   b_tags |-> Arr("b_tags_i"),
   b_tags_i |-> Typed("string"),
   b_void |-> Typed("null")]

\* arrays of primitive values at the root and in a nested inline object
DocArrays ==
  [a |-> Obj([tags |-> "a_tags", scores |-> "a_scores", flags |-> "a_flags",
              user |-> "a_user"]),
   a_tags |-> Arr("a_tags_i"),
   a_tags_i |-> Typed("string"),
   a_scores |-> Arr("a_scores_i"),
   a_scores_i |-> Typed("number"),
   a_flags |-> Arr("a_flags_i"),
   a_flags_i |-> Typed("boolean"),
   a_user |-> Obj([langs |-> "a_langs"]),
   a_langs |-> Arr("a_langs_i"),
   a_langs_i |-> Typed("string")]

\* nullable unions in a nested inline object, in the item object of an
\* array and in a definition reached through a reference
DocNested ==
  [n |-> WithDefs(Obj([user |-> "n_user", books |-> "n_books", addr |-> "n_addr"]),
                  [address |-> "n_address"]),
   n_user |-> Obj([nick |-> "n_nick", flag |-> "n_flag"]),
   n_nick |-> OneOf("anyOf", <<"n_nick_0", "n_nick_1">>),
   n_nick_0 |-> Typed("string"),
   n_nick_1 |-> Typed("null"),
   n_flag |-> Typed("boolean"),
   n_books |-> Arr("n_book"),
   n_book |-> Obj([isbn |-> "n_isbn", title |-> "n_title"]),
   n_isbn |-> OneOf("oneOf", <<"n_isbn_0", "n_isbn_1">>),
   n_isbn_0 |-> Typed("string"),
   n_isbn_1 |-> Typed("null"),
   n_title |-> Typed("string"),
   n_addr |-> RefTo(<<"definitions", "address">>),
   n_address |-> Obj([zip |-> "n_zip", city |-> "n_city"]),
   n_zip |-> OneOf("allOf", <<"n_zip_0", "n_zip_1">>),
   n_zip_0 |-> Typed("string"),
   n_zip_1 |-> Typed("null"),
   n_city |-> Typed("string")]

\* a union of two object alternatives that share property names, and a
\* nullable union with an object alternative
DocUnion ==
  [u |-> Obj([notification |-> "u_notif", contact |-> "u_contact"]),
   u_notif |-> OneOf("oneOf", <<"u_mail", "u_sms">>),
   u_mail |-> Obj([kind |-> "u_mail_kind", email |-> "u_mail_email",
                   level |-> "u_mail_level", urgent |-> "u_mail_urgent"]),
   u_mail_kind |-> WithDefault(Typed("string"), Str("email")),
   u_mail_email |-> Typed("string"),
   u_mail_level |-> Typed("integer"),
   u_mail_urgent |-> Typed("boolean"),
   u_sms |-> Obj([kind |-> "u_sms_kind", phone |-> "u_sms_phone",
                  level |-> "u_sms_level"]),
   u_sms_kind |-> WithDefault(Typed("string"), Str("sms")),
   u_sms_phone |-> Typed("string"),
   u_sms_level |-> Typed("string"),
   u_contact |-> OneOf("anyOf", <<"u_person", "u_none">>),
   u_person |-> Obj([phone |-> "u_person_phone"]),
   u_person_phone |-> Typed("string"),
   u_none |-> Typed("null")]

\* shapes the path resolution has no rule for: a union with an array
\* alternative, an array without an item schema, a scalar property that
\* entries index or descend into
DocLoose ==
  [l |-> Obj([list |-> "l_list", bare |-> "l_bare", name |-> "l_name"]),
   l_list |-> OneOf("oneOf", <<"l_list_0", "l_list_1">>),
   l_list_0 |-> Arr("l_list_i"),
   l_list_i |-> Typed("integer"),
   l_list_1 |-> Typed("string"),
   l_bare |-> Typed("array"),
   l_name |-> Typed("string")]

\* a property that refers back to the root, and a definition one of whose
\* properties refers back to the definition
DocSelf ==
  [s |-> WithDefs(Obj([name |-> "s_name", age |-> "s_age", child |-> "s_child",
                       head |-> "s_head"]),
                  [node |-> "s_node"]),
   s_name |-> Typed("string"),
   s_age |-> Typed("integer"),
   s_child |-> RefRoot,
   s_head |-> RefTo(<<"definitions", "node">>),
   s_node |-> Obj([value |-> "s_value", next |-> "s_next"]),
   s_value |-> WithDefault(Typed("integer"), Num("1")),
   s_next |-> RefTo(<<"definitions", "node">>)]

\* a reference whose last segment names no definition
DocDangling ==
  [d |-> WithDefs(Obj([a |-> "d_a"]), [other |-> "d_other"]),
   d_a |-> RefTo(<<"definitions", "missing">>),
   d_other |-> Typed("string")]

\* a reference whose last segment names no definition but a member every
\* object inherits
DocInherited ==
  [o |-> WithDefs(Obj([a |-> "o_a"]), [other |-> "o_other"]),
   o_a |-> RefTo(<<"definitions", "constructor">>),
   o_other |-> Typed("string")]

\* a property whose reference denotes the property itself
DocSelfRef ==
  [r |-> Obj([a |-> "r_a"]),
   r_a |-> RefTo(<<"properties", "a">>)]

\* two properties whose references denote each other
DocRefLoop ==
  [q |-> Obj([a |-> "q_a", b |-> "q_b"]),
   q_a |-> RefTo(<<"properties", "b">>),
   q_b |-> RefTo(<<"properties", "a">>)]

\* an array definition whose item schema refers back to the definition
DocTree ==
  [c |-> WithDefs(Obj([list |-> "c_ref"]), [tree |-> "c_tree"]),
   c_ref |-> RefTo(<<"definitions", "tree">>),
   c_tree |-> Arr("c_item"),
   c_item |-> RefTo(<<"definitions", "tree">>)]

\* an array-typed property with an explicit default
DocArrayDefault ==
  [t |-> Obj([tags |-> "t_tags", name |-> "t_name"]),
   t_tags |-> WithDefault(Arr("t_tags_i"), List(1, [seg \in {"0"} |-> Str("a")])),
   t_tags_i |-> Typed("string"),
   t_name |-> Typed("string")]

\* a property whose reference string names another document
DocExternal ==
  [x |-> Obj([a |-> "x_a", name |-> "x_name"]),
   x_a |-> RefOther,
   x_name |-> Typed("string")]

\* a root that declares one scalar property, for entries whose keys the
\* schema does not declare
DocFree ==
  [f |-> Obj([name |-> "f_name"]),
   f_name |-> Typed("string")]

\* a nullable union one of whose alternatives is a reference to an object
\* definition
DocUnionRef ==
  [v |-> WithDefs(Obj([contact |-> "v_contact"]), [person |-> "v_person"]),
   v_contact |-> OneOf("oneOf", <<"v_contact_0", "v_contact_1">>),
   v_contact_0 |-> RefTo(<<"definitions", "person">>),
   v_contact_1 |-> Typed("null"),
   v_person |-> Obj([age |-> "v_age", active |-> "v_active"]),
   v_age |-> Typed("integer"),
   v_active |-> Typed("boolean")]

Docs ==
  [basic |-> DocBasic, arrays |-> DocArrays, nested |-> DocNested, union |-> DocUnion,
   loose |-> DocLoose, self |-> DocSelf, dangling |-> DocDangling,
   inherited |-> DocInherited, selfref |-> DocSelfRef, refloop |-> DocRefLoop,
   tree |-> DocTree, arraydefault |-> DocArrayDefault, external |-> DocExternal,
   free |-> DocFree, unionref |-> DocUnionRef]

RootOf ==
  [basic |-> "b", arrays |-> "a", nested |-> "n", union |-> "u",
   loose |-> "l", self |-> "s", dangling |-> "d", inherited |-> "o",
   selfref |-> "r", refloop |-> "q", tree |-> "c", arraydefault |-> "t",
   external |-> "x", free |-> "f", unionref |-> "v"]

\* a raw key part: a name followed by bracketed indices
P(name) == [name |-> name, ix |-> <<>>]

PI(name, index) == [name |-> name, ix |-> <<index>>]

E(key, value) == [key |-> key, value |-> value]

\* the key part repeated k times
Repeat(part, k) == [i \in 1..k |-> part]

EntriesOf ==
  [basic |->
     {E(<<P("name")>>, "a"), E(<<P("name")>>, "b"), E(<<P("age")>>, "05"),
      E(<<P("active")>>, "on"), E(<<P("nick")>>, ""), E(<<P("nick")>>, "a"),
      E(<<P("role")>>, "a"), E(<<P("prefs"), P("theme")>>, "dark"),
      E(<<P("prefs"), P("size")>>, "5"), E(<<P("tags")>>, "a")},
   arrays |->
     {E(<<P("tags")>>, "a"), E(<<P("tags")>>, "b"),
      E(<<PI("tags", "0")>>, "a"), E(<<PI("tags", "1")>>, "b"),
      E(<<PI("tags", "0")>>, "c"), E(<<PI("tags", "2")>>, "c"),
      E(<<P("scores")>>, "5"), E(<<P("scores")>>, "05"), E(<<PI("scores", "1")>>, "7"),
      E(<<P("flags")>>, "on"), E(<<P("flags")>>, "false"),
      E(<<P("user"), P("langs")>>, "a"), E(<<P("user"), P("langs")>>, "b"),
      E(<<P("user"), PI("langs", "1")>>, "c")},
   nested |->
     {E(<<P("user"), P("nick")>>, ""), E(<<P("user"), P("nick")>>, "a"),
      E(<<P("user"), P("flag")>>, "on"),
      E(<<PI("books", "0"), P("isbn")>>, ""), E(<<PI("books", "0"), P("isbn")>>, "a"),
      E(<<PI("books", "1"), P("title")>>, "a"),
      E(<<P("addr"), P("zip")>>, ""), E(<<P("addr"), P("zip")>>, "a"),
      E(<<P("addr"), P("city")>>, "a")},
   union |->
     {E(<<P("notification"), P("kind")>>, "sms"), E(<<P("notification"), P("email")>>, "a"),
      E(<<P("notification"), P("phone")>>, "5"), E(<<P("notification"), P("level")>>, "05"),
      E(<<P("notification"), P("urgent")>>, "on"), E(<<P("notification"), P("foo")>>, "a"),
      E(<<P("notification")>>, "a"),
      E(<<P("contact"), P("phone")>>, "5"), E(<<P("contact")>>, "")},
   loose |->
     {E(<<PI("list", "0")>>, "5"), E(<<PI("list", "1")>>, "05"),
      E(<<P("bare")>>, "a"), E(<<P("extra")>>, "a"), E(<<P("extra")>>, "05"),
      E(<<PI("name", "0")>>, "on"), E(<<P("name")>>, "a"),
      E(<<P("name"), P("first")>>, "b")},
   self |->
     {E(<<P("name")>>, "a"), E(<<P("head"), P("value")>>, "05"),
      E(<<P("head"), P("next"), P("next"), P("value")>>, "7")}
     \cup {E(Repeat(P("child"), k) \o <<P("age")>>, "05") : k \in 1..MaxDepth},
   dangling |-> {},
   inherited |-> {E(<<P("a")>>, "5")},
   selfref |-> {},
   refloop |-> {},
   tree |-> {},
   arraydefault |-> {},
   external |-> {E(<<P("a")>>, "5"), E(<<P("name")>>, "a")},
   free |->
     {E(<<P("name")>>, "a"), E(<<P("extra"), P("first")>>, "a"),
      E(<<PI("extra", "0")>>, "a"), E(<<PI("extra", "1")>>, "b"),
      E(<<P("extra"), P("-1")>>, "a"), E(<<P("extra"), P("")>>, "a"),
      E(<<P("other"), P("-1"), P("x")>>, "a")},
   unionref |->
     {E(<<P("contact"), P("age")>>, "05"), E(<<P("contact"), P("active")>>, "on"),
      E(<<P("contact")>>, "")}]

\* leaf schemas and raw values for the value coercer on its own
CoerceNodes ==
  [i_boolean |-> Typed("boolean"), i_integer |-> Typed("integer"),
   i_string |-> Typed("string"), i_union |-> OneOf("oneOf", <<"i_string", "i_integer">>)]

LeafTypes == {"boolean", "integer", "number", "string", "array", "null", "object", ""}

LeafSchemas ==
  {[NoNode EXCEPT !.type = t, !.nullable = nl] : t \in LeafTypes \ {"array"}, nl \in BOOLEAN}
  \cup {[Arr(i) EXCEPT !.nullable = nl] : i \in DOMAIN CoerceNodes, nl \in BOOLEAN}

RawValues == {"", "on", "true", "false", "1", "05", "a", "On"}

\* ------------------------------------------------------------------------
\* The state machine
\* ------------------------------------------------------------------------
VARIABLES
  doc,          \* the schema document handed to createParser
  pc,           \* "new", "ready" (parser built, idle), "parsing", "failed"
  nodes,        \* the schema graph
  heap,         \* shared default objects and the output tree in progress
  entries,      \* the entries fed to the tree builder in this invocation
  result,       \* the tree the last invocation returned
  status,       \* "ok", or the error the last operation raised
  invocations,  \* number of invocations started
  cSchema,      \* value coercer on its own: leaf schema,
  cRaw,         \* raw value,
  cOut          \* and coerced value

vars == <<doc, pc, nodes, heap, entries, result, status, invocations, cSchema, cRaw, cOut>>

parserVars == <<doc, pc, nodes, heap, entries, result, status, invocations>>

coerceVars == <<cSchema, cRaw, cOut>>

Init ==
  /\ doc \in DOMAIN Docs
  /\ pc = "new"
  /\ nodes = Docs[doc]
  /\ heap = [b \in {RootBase} |-> Undef]
  /\ entries = <<>>
  /\ result = Undef
  /\ status = ""
  /\ invocations = 0
  /\ cSchema = NoNode
  /\ cRaw = ""
  /\ cOut = Undef

\* createParser(schema): resolve references, enhance, return the parser
Create ==
  /\ pc = "new"
  /\ \E built \in {CreateParser(nodes, RootOf[doc])} :
       IF built.err # ""
       THEN /\ pc' = "failed"
            /\ status' = built.err
            /\ UNCHANGED <<nodes, heap>>
       ELSE /\ pc' = "ready"
            /\ status' = "built"
            /\ nodes' = built.nodes
            /\ heap' = built.heap @@ heap
  /\ UNCHANGED <<doc, entries, result, invocations, coerceVars>>

\* the parser is called: root = getDefault(schema)
Begin ==
  /\ pc = "ready"
  /\ invocations < MaxInvocations
  /\ pc' = "parsing"
  /\ heap' = [heap EXCEPT ![RootBase] = GetDefault(nodes, View(nodes, RootOf[doc]))]
  /\ entries' = <<>>
  /\ result' = Undef
  /\ status' = ""
  /\ invocations' = invocations + 1
  /\ UNCHANGED <<doc, nodes, coerceVars>>

\* the callback of formData.forEach on the next entry
Entry ==
  /\ pc = "parsing"
  /\ Len(entries) < MaxEntries
  /\ \E e \in EntriesOf[doc] :
       \E done \in {SetNestedValue(nodes, heap, View(nodes, RootOf[doc]),
                                   SplitKey(e.key), e.value)} :
         /\ entries' = Append(entries, e)
         /\ IF done.err # ""
            THEN /\ pc' = "ready"
                 /\ status' = done.err
                 /\ heap' = [done.heap EXCEPT ![RootBase] = Undef]
            ELSE /\ heap' = done.heap
                 /\ UNCHANGED <<pc, status>>
  /\ UNCHANGED <<doc, nodes, result, invocations, coerceVars>>

\* the parser returns root
Return ==
  /\ pc = "parsing"
  /\ pc' = "ready"
  /\ status' = "ok"
  /\ result' = Deref(heap, heap[RootBase])
  /\ heap' = [heap EXCEPT ![RootBase] = Undef]
  /\ UNCHANGED <<doc, nodes, entries, invocations, coerceVars>>

Next == Create \/ Begin \/ Entry \/ Return

Spec == Init /\ [][Next]_vars

\* the value coercer applied to one leaf schema and one raw value
InitCoerce ==
  /\ doc = "basic"
  /\ pc = "new"
  /\ nodes = CoerceNodes
  /\ heap = [b \in {RootBase} |-> Undef]
  /\ entries = <<>>
  /\ result = Undef
  /\ status = ""
  /\ invocations = 0
  /\ cSchema \in LeafSchemas
  /\ cRaw \in RawValues
  /\ cOut = Undef

Coerce ==
  /\ cOut = Undef
  /\ cOut' = ParseValue(nodes, cSchema, cRaw)
  /\ UNCHANGED <<parserVars, cSchema, cRaw>>

NextCoerce == Coerce

SpecCoerce == InitCoerce /\ [][NextCoerce]_vars

\* ------------------------------------------------------------------------
\* Properties
\* ------------------------------------------------------------------------
TypeOK ==
  /\ pc \in {"new", "ready", "parsing", "failed"}
  /\ Len(entries) <= MaxEntries
  /\ invocations <= MaxInvocations

\* the last invocation has returned a tree for the entry sequence entries
Returned == pc = "ready" /\ status = "ok"

Root == RootOf[doc]

KeysOf(e) == SplitKey(e.key)

IsPrefix(s, t) == Len(s) <= Len(t) /\ SubSeq(t, 1, Len(s)) = s

\* the value at a path of a tree, Undef where the path does not exist
RECURSIVE ValueAt(_, _)
ValueAt(v, path) ==
  IF path = <<>> THEN v
  ELSE IF IsContainer(v) /\ Head(path) \in DOMAIN v.m THEN ValueAt(v.m[Head(path)], Tail(path))
  ELSE Undef

\* the positions in entries of the entries whose path satisfies Test
Positions(Test(_)) == {i \in 1..Len(entries) : Test(KeysOf(entries[i]))}

Last(S) == CHOOSE i \in S : \A j \in S : j <= i

\* s and t name the same slot, or one names a slot on the way to the other
Related(s, t) == IsPrefix(s, t) \/ IsPrefix(t, s)

\* the paths of the entries given so far
EntryPaths == {KeysOf(entries[i]) : i \in 1..Len(entries)}

\* the paths of the containers the entries go through
ContainerPaths ==
  UNION {{SubSeq(path, 1, n) : n \in 1..(Len(path) - 1)} : path \in EntryPaths}

\* the positions of S in ascending order
RECURSIVE Ascending(_)
Ascending(S) ==
  IF S = {} THEN <<>> ELSE Append(Ascending(S \ {Last(S)}), Last(S))

\* the list [seq[1], ..., seq[n]] as a value
ListOf(seq) ==
  List(Len(seq), [seg \in {Indices[i] : i \in 1..Len(seq)} |-> seq[IdxOf(seg) + 1]])

\* the schema node declared for a path of property names and array
\* indices ("" if there is none)
RECURSIVE DeclaredAt(_, _, _)
DeclaredAt(ns, id, path) ==
  IF path = <<>> THEN id
  ELSE LET v == View(ns, id) IN
       IF v.type = "object" /\ v.hasProps /\ Head(path) \in DOMAIN v.props
       THEN DeclaredAt(ns, v.props[Head(path)], Tail(path))
       ELSE IF v.type = "array" /\ v.itemsKind = "single" /\ IsIndex(Head(path))
       THEN DeclaredAt(ns, v.items[1], Tail(path))
       ELSE ""

Declared(path) ==
  IF DeclaredAt(nodes, Root, path) = "" THEN NoNode
  ELSE View(nodes, DeclaredAt(nodes, Root, path))

\* path names a property declared array-typed with one item schema
ArrayTyped(path) == Declared(path).type = "array" /\ Declared(path).itemsKind = "single"

ItemSchema(path) == View(nodes, Declared(path).items[1])

ScalarItems(path) == ItemSchema(path).type \in {"string", "number", "integer", "boolean"}

\* the coerced values of the entries at the given positions, in input order
CoercedInOrder(schema, S) ==
  [n \in 1..Cardinality(S) |-> ParseValue(nodes, schema, entries[Ascending(S)[n]].value)]

\* the schema graph and shared objects as construction left them
Built == CreateParser(Docs[doc], Root)

\* C1: the tree an invocation returns for an entry sequence is the tree a
\* freshly built parser returns for it, whatever invocations came before.
C1_ResultDependsOnlyOnEntries ==
  Returned => result = FreshParse(Docs[doc], Root, entries)

\* C2: an invocation leaves the schema graph, every defaults template and
\* every explicit default stored in the schema as construction left them.
C2_SchemaUnchangedByInvocation ==
  pc = "ready" =>
    /\ nodes = Built.nodes
    /\ \A b \in DOMAIN Built.heap : Deref(heap, heap[b]) = Deref(Built.heap, Built.heap[b])

\* every entry that touches the array at path repeats the bare key
OnlyBareKeys(path) ==
  \A q \in EntryPaths : Related(path, q) => q = path

\* C3: for a property declared array-typed, entries that repeat the bare
\* property key yield the list of their values in input order, each coerced
\* by the array's item schema.
C3_RepeatedKeysAppendInOrder ==
  Returned =>
    \A path \in EntryPaths :
      ArrayTyped(path) /\ OnlyBareKeys(path) =>
        ValueAt(result, path) =
          ListOf(CoercedInOrder(ItemSchema(path), Positions(LAMBDA q : q = path)))

C3_Witness ==
  /\ Returned
  /\ doc = "arrays"
  /\ entries = <<E(<<P("scores")>>, "05"), E(<<P("tags")>>, "b"), E(<<P("tags")>>, "a")>>
  /\ ValueAt(result, <<"tags">>) = ListOf(<<Str("b"), Str("a")>>)
  /\ ValueAt(result, <<"scores">>) = ListOf(<<Num("5")>>)

\* every entry that touches the array at path has the form path[i]
OnlyIndexKeys(path) ==
  \A q \in EntryPaths :
    Related(path, q) => Len(q) = Len(path) + 1 /\ IsPrefix(path, q) /\ IsIndex(q[Len(q)])

\* the indices the entries name for the array at path
NamedIndices(path) == {q[Len(q)] : q \in {r \in EntryPaths : IsPrefix(path, r) /\ r # path}}

\* C4 as stated: entries with literal index keys accumulate in the order
\* they were given, for every choice of indices.
C4_IndexKeysAppendInOrder ==
  Returned =>
    \A path \in ContainerPaths :
      ArrayTyped(path) /\ ScalarItems(path) /\ OnlyIndexKeys(path) =>
        ValueAt(result, path) =
          ListOf(CoercedInOrder(ItemSchema(path), Positions(LAMBDA q : IsPrefix(path, q))))

\* C4 amended: an entry with key name[i] is stored at position i of the
\* list: position i holds the coerced value of the last entry given for
\* index i, a position no entry names stays empty, and the length of the
\* list is the largest index named plus one.
C4_IndexKeysAssignByIndex ==
  Returned =>
    \A path \in ContainerPaths :
      ArrayTyped(path) /\ ScalarItems(path) /\ OnlyIndexKeys(path) =>
        ValueAt(result, path) =
          List(1 + IdxOf(CHOOSE seg \in NamedIndices(path) :
                          \A other \in NamedIndices(path) : IdxOf(other) <= IdxOf(seg)),
               [seg \in NamedIndices(path) |->
                  ParseValue(nodes, ItemSchema(path),
                             entries[Last(Positions(LAMBDA q : q = Append(path, seg)))].value)])

C4_Witness ==
  /\ Returned
  /\ doc = "arrays"
  /\ entries = <<E(<<PI("tags", "2")>>, "c"), E(<<PI("tags", "0")>>, "a"), E(<<PI("tags", "0")>>, "c")>>
  /\ ValueAt(result, <<"tags">>) = List(3, [seg \in {"0", "2"} |-> Str("c")])

\* the schema the tree builder resolves for the last segment of a path
RECURSIVE SchemaAt(_, _, _)
SchemaAt(schema, path, i) ==
  IF i = Len(path) THEN GetCurrentSchema(nodes, schema, path[i], NoNext)
  ELSE SchemaAt(GetCurrentSchema(nodes, schema, path[i], NextKey(path[i + 1])), path, i + 1)

\* C5: when several entries of one invocation carry the same path and the
\* slot at that path is not a list, the output holds at that path the
\* coerced value of the last of them (no later entry writing above or
\* below that slot).
C5_LastWriteWins ==
  Returned =>
    \A path \in EntryPaths :
      LET same == Positions(LAMBDA q : q = path)
          later == Positions(LAMBDA q : Related(path, q) /\ q # path)
      IN /\ Cardinality(same) >= 2
         /\ \A j \in later : j < Last(same)
         /\ ValueAt(result, path).k # "list"
         => ValueAt(result, path) =
              ParseValue(nodes, SchemaAt(View(nodes, Root), path, 1), entries[Last(same)].value)

C5_Witness ==
  /\ Returned
  /\ doc = "basic"
  /\ entries = <<E(<<P("name")>>, "b"), E(<<P("age")>>, "05"), E(<<P("name")>>, "a")>>
  /\ ValueAt(result, <<"name">>) = Str("a")

\* path names a property declared as a union with a null alternative
NullableUnion(path) ==
  Declared(path).unionKind # "" /\ HasNullAlt(nodes, Declared(path))

\* C6: an entry carrying the empty string for a property declared as a
\* union with a null alternative yields null at that path, wherever in the
\* schema the property is declared.
C6_EmptyStringIsNullEverywhere ==
  Returned =>
    \A i \in 1..Len(entries) :
      LET path == KeysOf(entries[i]) IN
      /\ NullableUnion(path)
      /\ entries[i].value = ""
      /\ \A j \in (i + 1)..Len(entries) : ~Related(path, KeysOf(entries[j]))
      => ValueAt(result, path) = Null

\* C7: the value coercer returns null for the empty string whenever the
\* leaf schema is marked nullable, whatever its declared type.
C7_NullableEmptyStringIsNull ==
  cOut # Undef /\ cSchema.nullable /\ cRaw = "" => cOut = Null

C7_Witness ==
  cOut = Null /\ cSchema.nullable /\ cRaw = "" /\ cSchema.type = "boolean"

\* C8: a boolean-typed leaf not preempted by the nullable-empty-string rule
\* coerces to true if and only if the raw value is "on" or "true".
C8_BooleanOnlyOnOrTrue ==
  cOut # Undef /\ cSchema.type = "boolean" /\ ~(cSchema.nullable /\ cRaw = "") =>
    /\ cOut.k = "bool"
    /\ (cOut.s = "true") <=> (cRaw \in {"on", "true"})

C8_Witness ==
  cOut = Bool(TRUE) /\ cSchema.type = "boolean" /\ cRaw = "on" /\ ~cSchema.nullable

\* no entry of the invocation goes to property prop of the root
Untouched(prop) == \A q \in EntryPaths : q[1] # prop

RootProps == View(nodes, Root).props

UnionProps == {prop \in DOMAIN RootProps : View(nodes, RootProps[prop]).unionKind # ""}

Alts(prop) == View(nodes, RootProps[prop]).alts

\* the first alternative of the union whose properties contain name (0 if
\* there is none)
FirstAltWith(prop, name) ==
  LET Has(i) == /\ View(nodes, Alts(prop)[i]).hasProps
                /\ name \in DOMAIN View(nodes, Alts(prop)[i]).props
  IN IF \E i \in 1..Len(Alts(prop)) : Has(i)
     THEN CHOOSE i \in 1..Len(Alts(prop)) : Has(i) /\ \A j \in 1..(i - 1) : ~Has(j)
     ELSE 0

\* the alternatives the lookahead of some entry selects
SelectedAlts(prop) ==
  {Alts(prop)[FirstAltWith(prop, q[2])] :
     q \in {r \in EntryPaths : Len(r) >= 2 /\ r[1] = prop /\ FirstAltWith(prop, r[2]) # 0}}

\* C10: an entry whose path goes through a union-typed property and
\* continues with a property name is governed by the first alternative
\* whose properties contain that name, and the output for the union
\* property holds only fields written by entries or defaulted by a selected
\* alternative.
C10_LookaheadSelectsAlternative ==
  Returned =>
    \A prop \in UnionProps :
      /\ \A i \in 1..Len(entries) :
           LET path == KeysOf(entries[i])
               alt == FirstAltWith(prop, path[2])
           IN /\ Len(path) = 2
              /\ path[1] = prop
              /\ \A j \in (i + 1)..Len(entries) : ~Related(path, KeysOf(entries[j]))
              => ValueAt(result, path) =
                   IF alt = 0 THEN Str(entries[i].value)
                   ELSE ParseValue(nodes,
                                   View(nodes, View(nodes, Alts(prop)[alt]).props[path[2]]),
                                   entries[i].value)
      /\ ValueAt(result, <<prop>>).k = "map" =>
           \A field \in DOMAIN ValueAt(result, <<prop>>).m :
             \/ \E q \in EntryPaths : Len(q) >= 2 /\ q[1] = prop /\ q[2] = field
             \/ \E a \in SelectedAlts(prop) :
                  field \in DOMAIN GetDefault(nodes, View(nodes, a)).m

C10_Witness ==
  /\ Returned
  /\ doc = "union"
  /\ entries = <<E(<<P("notification"), P("kind")>>, "sms"),
                 E(<<P("notification"), P("phone")>>, "5"),
                 E(<<P("notification"), P("level")>>, "05")>>
  /\ ValueAt(result, <<"notification">>) =
       Map([kind |-> Str("sms"), urgent |-> Bool(FALSE), phone |-> Str("5"), level |-> Num("5")])

\* the first alternative of the union that declares items (0 if there is
\* none)
FirstAltWithItems(prop) ==
  LET Has(i) == View(nodes, Alts(prop)[i]).itemsKind # "none"
  IN IF \E i \in 1..Len(Alts(prop)) : Has(i)
     THEN CHOOSE i \in 1..Len(Alts(prop)) : Has(i) /\ \A j \in 1..(i - 1) : ~Has(j)
     ELSE 0

\* C11: an entry whose path goes through a union-typed property and
\* continues with an array index is governed by the first alternative that
\* declares items: the value stored under that index is coerced by that
\* alternative's item schema.
C11_IndexSelectsArrayAlternative ==
  Returned =>
    \A prop \in UnionProps :
      \A i \in 1..Len(entries) :
        LET path == KeysOf(entries[i]) IN
        /\ Len(path) = 2
        /\ path[1] = prop
        /\ IsIndex(path[2])
        /\ FirstAltWithItems(prop) # 0
        /\ \A j \in (i + 1)..Len(entries) : ~Related(path, KeysOf(entries[j]))
        => ValueAt(result, path) =
             ParseValue(nodes,
                        View(nodes, View(nodes, Alts(prop)[FirstAltWithItems(prop)]).items[1]),
                        entries[i].value)

\* the schema object id as the document handed to createParser declares it
Source(id) == Docs[doc][id]

IsReference(id) == Source(id).refForm # "none"

\* the schema object a reference stands for: the root for "#", the named
\* definition of the root for "#/definitions/name"
RECURSIVE Referent(_)
Referent(id) ==
  CASE Source(id).refForm = "root" -> Root
    [] /\ Source(id).refForm = "rel"
       /\ Len(Source(id).refPath) = 2
       /\ Source(id).refPath[1] = "definitions"
       /\ Source(id).refPath[2] \in DOMAIN Source(Root).defs ->
         IF Source(Root).defs[Source(id).refPath[2]] = id THEN id
         ELSE Referent(Source(Root).defs[Source(id).refPath[2]])
    [] OTHER -> id

\* the property the path of property names leads to from schema object id,
\* every reference on the way standing for its referent ("" if the
\* document declares none)
RECURSIVE NodeAt(_, _)
NodeAt(id, path) ==
  IF path = <<>> \/ id = "" THEN id
  ELSE IF Head(path) \in DOMAIN Source(Referent(id)).props
  THEN NodeAt(Source(Referent(id)).props[Head(path)], Tail(path))
  ELSE ""

\* the path goes through a property declared by reference
ThroughReference(path) ==
  \E n \in 1..(Len(path) - 1) :
    /\ NodeAt(Root, SubSeq(path, 1, n)) # ""
    /\ IsReference(NodeAt(Root, SubSeq(path, 1, n)))

ScalarTypes == {"string", "number", "integer", "boolean"}

\* C12: an entry whose path goes k times through a property declared by a
\* reference back to the root or to its enclosing definition is written at
\* depth k, its leaf coerced by the property schema of the referenced
\* node; and a property declared by reference that no entry's path reaches
\* is absent from the level that holds it.
C12_SelfReferenceNestsByPath ==
  Returned =>
    /\ \A i \in 1..Len(entries) :
         LET path == KeysOf(entries[i]) IN
         /\ ThroughReference(path)
         /\ NodeAt(Root, path) # ""
         /\ Source(Referent(NodeAt(Root, path))).type \in ScalarTypes
         /\ \A j \in (i + 1)..Len(entries) : ~Related(path, KeysOf(entries[j]))
         => ValueAt(result, path) =
              ParseValue(nodes, Source(Referent(NodeAt(Root, path))), entries[i].value)
    /\ \A level \in {<<>>} \cup ContainerPaths :
         NodeAt(Root, level) # "" =>
           \A prop \in DOMAIN Source(Referent(NodeAt(Root, level))).props :
             /\ IsReference(Source(Referent(NodeAt(Root, level))).props[prop])
             /\ \A q \in EntryPaths : ~IsPrefix(Append(level, prop), q)
             => ValueAt(result, Append(level, prop)) = Undef

C12_Witness ==
  /\ Returned
  /\ doc = "self"
  /\ \E i \in 1..Len(entries) :
       KeysOf(entries[i]) = Repeat("child", MaxDepth) \o <<"age">>
  /\ ValueAt(result, Repeat("child", MaxDepth) \o <<"age">>) = Num("5")
  /\ ValueAt(result, Repeat("child", MaxDepth)).k = "map"
  /\ ValueAt(result, Repeat("child", MaxDepth + 1)) = Undef
  /\ ValueAt(result, <<"head">>) = Undef

\* the document declares what the root-relative pointer names, for the
\* pointers "#/definitions/name" and "#/properties/name"
PointerExists(path) ==
  /\ Len(path) = 2
  /\ \/ path[1] = "definitions" /\ path[2] \in DOMAIN Source(Root).defs
     \/ path[1] = "properties" /\ path[2] \in DOMAIN Source(Root).props

\* C13: when a reference pointer names a path one of whose segments does
\* not exist in the schema document, createParser fails with an error that
\* names the pointer, and returns no parser.
C13_DanglingReferenceFails ==
  pc # "new" =>
    \A id \in DOMAIN Docs[doc] :
      Source(id).refForm = "rel" /\ ~PointerExists(Source(id).refPath) =>
        /\ pc = "failed"
        /\ status = "Error"
        /\ Built.msg = <<"Unable to resolve reference">> \o Source(id).refPath

\* C14: once a parser has been built, no invocation raises an error,
\* whatever the entries and whatever the shape of the schema.
C14_InvocationNeverRaises ==
  pc \in {"ready", "parsing"} => status \in {"", "built", "ok"}

\* the schema an object-typed property without explicit default stands
\* for, at a path of property names ("" otherwise)
PlainObjectAt(path) ==
  IF NodeAt(Root, path) = "" THEN ""
  ELSE IF /\ Source(Referent(NodeAt(Root, path))).type = "object"
          /\ ~Source(NodeAt(Root, path)).hasDefault
          /\ ~Source(Referent(NodeAt(Root, path))).hasDefault
  THEN Referent(NodeAt(Root, path))
  ELSE ""

\* the property is a union one of whose alternatives is null-typed
DeclaredNullable(id) ==
  /\ Source(id).unionKind # ""
  /\ \E n \in 1..Len(Source(id).alts) : Source(Source(id).alts[n]).type = "null"

\* the value a property takes by default in an object materialized for an
\* entry: an explicit default (Undef stands for "some container"), false
\* for a boolean, null for a nullable union; "none" if the claim names no
\* default for it
DeclaredDefault(id) ==
  CASE Source(id).hasDefault /\ ~IsContainer(Source(id).default) -> Source(id).default
    [] Source(id).hasDefault -> Undef
    [] Source(id).type = "boolean" -> Bool(FALSE)
    [] DeclaredNullable(id) -> Null
    [] OTHER -> Str("none")

HasDeclaredDefault(id) ==
  Source(id).hasDefault \/ Source(id).type = "boolean" \/ DeclaredNullable(id)

\* the paths of the properties declared at the levels the entries reach
ReachedProperties ==
  UNION {{Append(level, prop) : prop \in DOMAIN Source(Referent(NodeAt(Root, level))).props} :
           level \in {l \in {<<>>} \cup ContainerPaths : NodeAt(Root, l) # ""}}

\* C15: an object-typed property without explicit default is present in
\* the output only if the path of some entry goes through it, and once an
\* entry has materialized it, each of its own properties that has a default
\* and that no entry writes holds that default.
C15_ObjectsMaterializeOnDemand ==
  Returned =>
    \A path \in ReachedProperties :
      PlainObjectAt(path) # "" =>
        /\ ValueAt(result, path) # Undef => \E q \in EntryPaths : IsPrefix(path, q)
        /\ (\E q \in EntryPaths : IsPrefix(path, q) /\ q # path) /\ ValueAt(result, path).k = "map" =>
             \A sub \in DOMAIN Source(PlainObjectAt(path)).props :
               /\ HasDeclaredDefault(Source(PlainObjectAt(path)).props[sub])
               /\ \A q \in EntryPaths : ~IsPrefix(Append(path, sub), q)
               => /\ ValueAt(result, Append(path, sub)) # Undef
                  /\ DeclaredDefault(Source(PlainObjectAt(path)).props[sub]) # Undef =>
                       ValueAt(result, Append(path, sub)) =
                         DeclaredDefault(Source(PlainObjectAt(path)).props[sub])

C15_Witness ==
  /\ Returned
  /\ doc = "nested"
  /\ entries = <<E(<<P("user"), P("nick")>>, "a")>>
  /\ ValueAt(result, <<"user">>) = Map([nick |-> Str("a"), flag |-> Bool(FALSE)])
  /\ ValueAt(result, <<"addr">>) = Undef

\* the schema that governs the last segment of a path: currentSchema after
\* the loop of the tree builder
RECURSIVE GoverningAt(_, _, _)
GoverningAt(schema, path, i) ==
  IF i = Len(path) THEN schema
  ELSE GoverningAt(GetCurrentSchema(nodes, schema, path[i], NextKey(path[i + 1])), path, i + 1)

\* the governing node declares nothing for the key: it is neither
\* object-typed with that property nor array-typed with items
Undeclared(governing, key) ==
  /\ ~(governing.type = "object" /\ governing.hasProps /\ key \in DOMAIN governing.props)
  /\ ~(governing.type = "array" /\ governing.itemsKind # "none")

\* C16: an entry whose last segment the governing node declares nothing
\* for puts its raw value into the output at its path, unchanged (no other
\* entry writing above or below that slot).
C16_UndeclaredKeyPassesThrough ==
  Returned =>
    \A i \in 1..Len(entries) :
      LET path == KeysOf(entries[i]) IN
      /\ Undeclared(GoverningAt(View(nodes, Root), path, 1), path[Len(path)])
      /\ \A j \in 1..Len(entries) :
           Related(path, KeysOf(entries[j])) => j <= i /\ KeysOf(entries[j]) = path
      => ValueAt(result, path) = Str(entries[i].value)

C16_Witness ==
  /\ Returned
  /\ doc = "loose"
  /\ entries = <<E(<<P("extra")>>, "05"), E(<<PI("name", "0")>>, "on")>>
  /\ ValueAt(result, <<"extra">>) = Str("05")
  /\ ValueAt(result, <<"name", "0">>) = Str("on")

\* the schema objects reference resolution processed, in order
Resolution == Built.trail

\* C17: reference resolution comes to an end on every schema document,
\* cyclic ones included, having processed each schema object at most once:
\* the objects it processed are objects of the document and none occurs
\* twice.
C17_ResolutionVisitsOnce ==
  pc # "new" =>
    \A trail \in {Resolution} :
      /\ \A n \in 1..Len(trail) : trail[n] \in DOMAIN Docs[doc]
      /\ \A n, m \in 1..Len(trail) : trail[n] = trail[m] => n = m

C17_Witness ==
  /\ pc = "ready"
  /\ doc = "self"
  /\ nodes["s_child"].proto = "s"
  /\ nodes["s_next"].proto = "s_node"
  /\ \E trail \in {Resolution} :
       /\ {trail[n] : n \in 1..Len(trail)} = DOMAIN Docs[doc]
       /\ Len(trail) = Cardinality(DOMAIN Docs[doc])

\* the schema objects enhancement built a template for, in order
Templates == Built.templates

\* C18: schema enhancement comes to an end on every resolved schema graph,
\* cyclic ones included, and builds the template of a schema object at
\* most once.
C18_EnhancementTerminates ==
  pc # "new" /\ Built.err # "Error" /\ Built.err # "TypeError" =>
    /\ Built.err # "RangeError"
    /\ \A n, m \in 1..Len(Templates) : Templates[n] = Templates[m] => n = m

\* the schema object the pointer of reference id denotes ("" if the
\* document declares none)
Denoted(id) ==
  IF id = "" \/ Source(id).refForm # "rel" \/ ~PointerExists(Source(id).refPath) THEN ""
  ELSE IF Source(id).refPath[1] = "definitions" THEN Source(Root).defs[Source(id).refPath[2]]
  ELSE Source(Root).props[Source(id).refPath[2]]

\* the pointer of reference id denotes id itself, or a reference whose
\* pointer denotes id
RefersToItself(id) == Denoted(id) = id \/ Denoted(Denoted(id)) = id

\* C19: createParser completes without error for a schema in which the
\* pointer of a reference denotes the referring schema object itself, or
\* in which references lead back to the schema object they started from.
C19_ReferenceCyclesAreLinked ==
  pc # "new" /\ (\E id \in DOMAIN Docs[doc] : RefersToItself(id)) =>
    pc # "failed"

\* C20: in a defaults template the entry of a property that declares an
\* explicit default is a copy of that default, whatever the type of the
\* property: createParser builds the template, and the template of the root
\* holds the default under the name of the property.
C20_ExplicitDefaultOverrides ==
  pc # "new" /\ Built.err # "Error" /\ Built.err # "RangeError" =>
    \A prop \in DOMAIN Source(Root).props :
      Source(Referent(Source(Root).props[prop])).hasDefault =>
        /\ pc # "failed"
        /\ Built.nodes[Root].hasPrefilled
        /\ prop \in DOMAIN Built.nodes[Root].prefilled.m
        /\ Deref(Built.heap, Built.nodes[Root].prefilled.m[prop]) =
             Source(Referent(Source(Root).props[prop])).default

\* the schema objects reachable from the schema objects of seen through
\* properties, item schemas, alternatives and definitions
RECURSIVE Reach(_, _)
Reach(ns, seen) ==
  LET more == seen \cup UNION {Range(Children(ns, id)) : id \in seen}
  IN IF more = seen THEN seen ELSE Reach(ns, more)

\* C21: once createParser has returned, no schema object reachable from the
\* root carries a reference pointer any more, whatever the form of the
\* pointer was: bare root, root-relative or any other string.
C21_NoPointerAfterResolution ==
  pc = "ready" => \A id \in Reach(nodes, {Root}) : nodes[id].refForm = "none"

\* the schema objects reachable from the schema objects of seen through
\* properties, item schemas and definition blocks
RECURSIVE Structure(_, _)
Structure(ns, seen) ==
  LET Below(v) == Range(v.props) \cup Range(v.items) \cup Range(v.defs)
      more == seen \cup UNION {Below(View(ns, id)) : id \in seen}
  IN IF more = seen THEN seen ELSE Structure(ns, more)

\* C22: once createParser has returned, every object-typed schema object
\* with properties that is reachable from the root through properties,
\* item schemas or definition blocks carries a defaults template, and each of
\* its properties that is a union with a null-typed alternative is marked
\* nullable.
C22_EveryObjectNodeIsEnhanced ==
  pc = "ready" =>
    \A id \in Structure(nodes, {Root}) :
      View(nodes, id).type = "object" /\ View(nodes, id).hasProps =>
        /\ View(nodes, id).hasPrefilled
        /\ \A prop \in DOMAIN View(nodes, id).props :
             IsNullable(nodes, View(nodes, View(nodes, id).props[prop])) =>
               View(nodes, View(nodes, id).props[prop]).nullable

\* the output tree under construction
Tree == Deref(heap, heap[RootBase])

\* the segment parses as a non-negative integer
NonNegativeInteger(seg) == seg # "" /\ IsIndex(NumberOf(seg))

\* the child schema the tree builder resolves for segment n of a path
ChildSchemaAt(path, n) ==
  GetCurrentSchema(nodes, GoverningAt(View(nodes, Root), SubSeq(path, 1, n), 1),
                   path[n], NextKey(path[n + 1]))

\* C23: when the tree builder handles an entry and finds the slot of an
\* intermediate segment unset while the resolved child schema yields no
\* usable default, the slot holds a list afterwards exactly when the
\* following segment parses as a non-negative integer, and a mapping for
\* every other following segment.
C23_FreshContainerByLookahead ==
  [][pc = "parsing" /\ pc' = "parsing" /\ Len(entries') = Len(entries) + 1 =>
       \A n \in 1..(Len(KeysOf(entries'[Len(entries')])) - 1) :
         LET path == KeysOf(entries'[Len(entries')]) IN
         /\ IsContainer(ValueAt(Tree, SubSeq(path, 1, n - 1)))
         /\ ValueAt(Tree, SubSeq(path, 1, n)) = Undef
         /\ ~Truthy(GetDefault(nodes, ChildSchemaAt(path, n)))
         => ValueAt(Tree', SubSeq(path, 1, n)).k =
              IF NonNegativeInteger(path[n + 1]) THEN "list" ELSE "map"]_vars

\* what a schema declares: type, properties, items, default and template
Content(v) ==
  <<v.type, v.hasProps, v.props, v.itemsKind, v.items, v.hasDefault, v.default,
    v.hasPrefilled, v.prefilled>>

\* the lookaheads the entries of the document give after a root property
Lookaheads ==
  {NoNext} \cup {NextKey(KeysOf(e)[2]) : e \in {x \in EntriesOf[doc] : Len(KeysOf(x)) >= 2}}

\* C24: resolving a union-typed property of the root returns the content
\* of the alternative the lookahead selects (type, properties, items,
\* default, template) together with the nullable flag of the union, also
\* when that alternative is a reference linked to its target.
C24_SelectedAlternativeKeepsContent ==
  pc = "ready" =>
    \A prop \in UnionProps :
      \A next \in Lookaheads :
        \A sel \in {GetByNext(nodes, "tuple", Alts(prop), next)} :
          sel.k = "node" =>
            /\ Content(GetCurrentSchema(nodes, View(nodes, Root), prop, next)) =
                 Content(View(nodes, sel.id))
            /\ GetCurrentSchema(nodes, View(nodes, Root), prop, next).nullable =
                 View(nodes, RootProps[prop]).nullable

\* the path of the entry the tree builder handled in this step
Handled == KeysOf(entries'[Len(entries')])

\* the tree builder handled one more entry without raising
EntryStep == pc = "parsing" /\ pc' = "parsing" /\ Len(entries') = Len(entries) + 1

\* C25: when the tree builder handles an entry, every proper prefix of its
\* path holds a mapping or a list afterwards, and a container that was
\* there before is the one the entry descends into: it is of the same kind
\* and holds under every other key what it held before.
C25_SharedPrefixSharesContainer ==
  [][EntryStep =>
       \A n \in 0..(Len(Handled) - 1) :
         /\ IsContainer(ValueAt(Tree', SubSeq(Handled, 1, n)))
         /\ IsContainer(ValueAt(Tree, SubSeq(Handled, 1, n))) =>
              /\ ValueAt(Tree', SubSeq(Handled, 1, n)).k = ValueAt(Tree, SubSeq(Handled, 1, n)).k
              /\ \A key \in DOMAIN ValueAt(Tree, SubSeq(Handled, 1, n)).m :
                   key # Handled[n + 1] =>
                     ValueAt(Tree', Append(SubSeq(Handled, 1, n), key)) =
                       ValueAt(Tree, Append(SubSeq(Handled, 1, n), key))]_vars

C25_Witness ==
  /\ Returned
  /\ doc = "nested"
  /\ entries = <<E(<<P("user"), P("nick")>>, "a"), E(<<PI("books", "0"), P("isbn")>>, "a"),
                 E(<<P("user"), P("flag")>>, "on")>>
  /\ ValueAt(result, <<"user">>) = Map([nick |-> Str("a"), flag |-> Bool(TRUE)])
  /\ ValueAt(result, <<"books", "0", "isbn">>) = Str("a")

\* the defaults of the schema resolved for a union-typed root property
\* under the lookahead name
ResolvedDefaults(prop, name) ==
  GetDefault(nodes, GetCurrentSchema(nodes, View(nodes, Root), prop, NextKey(name)))

\* the container c holds what the container d held, and field in addition
KeepsAndAdds(c, d, field) ==
  /\ c.k = d.k
  /\ DOMAIN c.m = DOMAIN d.m \cup {field}
  /\ \A f \in DOMAIN d.m : f # field => c.m[f] = d.m[f]

\* the container c holds the defaults d and field, nothing else
DefaultsAnd(c, d, field) ==
  /\ IsContainer(c)
  /\ DOMAIN c.m = (IF IsContainer(d) THEN DOMAIN d.m ELSE {}) \cup {field}
  /\ \A f \in DOMAIN c.m : f # field => c.m[f] = d.m[f]

\* the container c holds the defaults the document declares for the
\* properties of the alternative alt declared in place, but for field
DeclaredDefaultsOf(c, alt, field) ==
  \A sub \in DOMAIN Source(alt).props :
    /\ sub # field
    /\ HasDeclaredDefault(Source(alt).props[sub])
    /\ DeclaredDefault(Source(alt).props[sub]) # Undef
    => ValueAt(c, <<sub>>) = DeclaredDefault(Source(alt).props[sub])

====
